---- MODULE Spec2Model ----
(***************************************************************************)
(* The inactivity state machine of ScreensaverManager                       *)
(* (src/src/core/screensaver_manager.py) with the two Qt timers it owns,    *)
(* the overlay windows it creates and the part of ConfigManager it reads.   *)
(* Time is counted in seconds and advances in steps of TickSeconds.         *)
(***************************************************************************)
EXTENDS Integers, Sequences, FiniteSets, TLC

\* ---------------------------------------------------------------- bounds
\* Length of a run, in ticks of the clock.
MaxTicks == 7
\* Length of a run under the default configuration, in ticks of the clock.
LongTicks == 31
\* Largest number of displays QApplication.screens() reports.
MaxDisplays == 2
\* Longest list of windows the model lets an activation build.
MaxWindows == 2
\* Most input events the listeners deliver from one poll to the next.
MaxEvents == 3
\* Most calls of ConfigManager.set and reset_to_defaults in a run.
MaxCalls == 3

\* ------------------------------------------------------- program constants
\* ConfigManager.default_config["activation"]
DefaultDelayMinutes == 5
DefaultCheckIntervalSeconds == 30
\* delay_seconds = delay_minutes * 60
SecondsPerMinute == 60

\* Values the configuration file and ConfigManager.set supply. The delay is
\* one a run of MaxTicks reaches; the default delay is met under SpecDefault.
DelayMinutesValues == {1}
IntervalSecondsValues == {10, DefaultCheckIntervalSeconds}
TurnOffMinutesValues == {0, 1}

SetMin(S) == CHOOSE x \in S : \A y \in S : x <= y
\* The grain of the clock: every modelled duration is a multiple of it.
TickSeconds == SetMin(IntervalSecondsValues)
MaxTime == MaxTicks * TickSeconds
LongTime == LongTicks * TickSeconds

KeyDelay == "activation.delay_minutes"
KeyInterval == "activation.check_interval_seconds"
KeyAuto == "activation.enable_auto_activation"
KeyTurnOff == "system.turn_off_screen_delay_minutes"
\* A key the manager never reads (the settings dialog writes many of them).
KeyOther == "display.theme"
\* Keys ScreensaverWindow._update_display reads.
KeyShowWeather == "display.show_weather"
KeyLocation == "weather.location"
ManagerKeys == {KeyDelay, KeyInterval, KeyAuto, KeyTurnOff}
ConfigKeys == ManagerKeys \cup {KeyOther}

ConfigValues(key) ==
    CASE key = KeyDelay -> DelayMinutesValues
      [] key = KeyInterval -> IntervalSecondsValues
      [] key = KeyAuto -> BOOLEAN
      [] key = KeyTurnOff -> TurnOffMinutesValues
      [] OTHER -> {0}

VARIABLES
    state,                \* self.state: "IDLE", "WAITING" or "ACTIVE"
    is_active,            \* self.is_active
    screensaver_windows,  \* self.screensaver_windows: list of windows
    last_input_time,      \* self.last_input_time (seconds, monotonic)
    input_activity,       \* self._input_activity, set by the pynput listeners
    poll_timer,           \* self.poll_timer: [active, interval, remaining]
    screensaver_off_timer,\* self.screensaver_off_timer: [active, remaining]
    connected,            \* config_updated and the off timer's timeout are connected
    config,               \* ConfigManager.config, the keys the manager reads
    now,                  \* time.monotonic(), seconds since construction
    last,                 \* what the most recent step did (history)
    quiet,                \* polls and activations of a so far undisturbed run (history)
    hooks,                \* how _setup_input_listeners ended
    hotkey,               \* the keyboard library's thread inside toggle_screensaver
    poll_pc,              \* the poll's position inside _user_is_active
    events,               \* input events delivered, and the last poll's answer (history)
    heap,                 \* the dict objects ConfigManager holds, by address
    cm_config,            \* ConfigManager.config: the address of the dict
    default_config,       \* ConfigManager.default_config: the address of the dict
    cm_last               \* the last call made to ConfigManager (history)

\* The manager and its threads.
manager == <<state, is_active, screensaver_windows, last_input_time, input_activity,
             poll_timer, screensaver_off_timer, connected, config, now, last, quiet,
             hooks, hotkey, poll_pc, events>>

\* ConfigManager's dictionaries as Python objects.
store == <<heap, cm_config, default_config, cm_last>>

vars == <<manager, store>>

\* What the steps of the event thread that run a handler as a whole leave alone.
concurrent == <<hooks, hotkey, poll_pc, events>>

\* ------------------------------------------------------------ QTimer
\* QTimer.start(msec): (re)starts the timer with the given interval.
QTimerStart(t, seconds) == [active |-> TRUE, interval |-> seconds, remaining |-> seconds]
\* QTimer.stop(); the time left means nothing while the timer is stopped.
QTimerStop(t) == [t EXCEPT !.active = FALSE, !.remaining = 0]
\* QTimer.setInterval(msec): a running timer is killed and started again
\* with the new interval, whether or not the interval changed.
QTimerSetInterval(t, seconds) ==
    IF t.active THEN QTimerStart(t, seconds) ELSE [t EXCEPT !.interval = seconds]
\* One tick of the clock on a timer.
QTimerAdvance(t) ==
    IF t.active THEN [t EXCEPT !.remaining = @ - TickSeconds] ELSE t
QTimerDue(t) == t.active /\ t.remaining = 0

\* ------------------------------------------------------------ ConfigManager
\* ConfigManager.get(key_path, default) for the keys the manager reads.
ConfigGet(cfg, key) == cfg[key]
\* ConfigManager.get(key_path, default) for a key the dictionary may lack.
ConfigGetOr(cfg, key, default) ==
    IF key \in DOMAIN cfg THEN cfg[key] ELSE default
\* ConfigManager.set(key_path, value): the stored value; a key the manager
\* never reads leaves the modelled part of the dictionary as it is.
ConfigStore(cfg, key, value) ==
    IF key \in ManagerKeys THEN [cfg EXCEPT ![key] = value] ELSE cfg

\* ConfigManager's dictionaries as Python holds them: dict objects on a heap,
\* an item of a dict being a number or a reference to another dict. A key
\* path is the list key_path.split('.') gives.
Scalar(v) == [ref |-> FALSE, v |-> v]
Ref(a) == [ref |-> TRUE, v |-> a]
EmptyDict == <<>>

\* The part of default_config the paths below reach.
DefaultActivation ==
    ("delay_minutes" :> Scalar(DefaultDelayMinutes)) @@
    ("check_interval_seconds" :> Scalar(DefaultCheckIntervalSeconds))
\* The key paths of the defaults, with their values.
DefaultPaths ==
    {<<"activation", k>> : k \in DOMAIN DefaultActivation}
DefaultValue(key_path) == DefaultActivation[key_path[2]]

\* dict.copy(): a new dict object with the same items, the nested dicts
\* being the same objects.
DictCopy(h, a) == Append(h, h[a])

\* ConfigManager.__init__ with no configuration file: default_config is
\* built, config = default_config.copy(), load_config saves.
StoreConstructed ==
    /\ heap = DictCopy(<<("activation" :> Ref(2)), DefaultActivation>>, 1)
    /\ default_config = 1
    /\ cm_config = 3
    /\ cm_last = [op |-> "init", key_path |-> <<>>, value |-> 0,
                  emitted |-> 0, errors |-> 0, calls |-> 0]

\* `for key in keys: value = value[key]` of get: KeyError on a missing key,
\* TypeError on subscripting a number.
RECURSIVE Subscript(_, _, _)
Subscript(h, item, keys) ==
    IF keys = <<>> THEN [ok |-> TRUE, item |-> item]
    ELSE IF ~item.ref THEN [ok |-> FALSE, item |-> item]
    ELSE IF Head(keys) \notin DOMAIN h[item.v] THEN [ok |-> FALSE, item |-> item]
    ELSE Subscript(h, h[item.v][Head(keys)], Tail(keys))

\* ConfigManager.get(key_path, default)
ConfigManager_get(h, root, key_path, default) ==
    LET r == Subscript(h, Ref(root), key_path)
    IN  IF r.ok THEN r.item ELSE Scalar(default)

\* `for key in keys[:-1]` of set: a missing key gets a new empty dict;
\* `key not in config` raises TypeError when config is a number.
RECURSIVE Descend(_, _, _)
Descend(h, item, keys) ==
    IF keys = <<>> THEN [ok |-> TRUE, heap |-> h, item |-> item]
    ELSE IF ~item.ref THEN [ok |-> FALSE, heap |-> h, item |-> item]
    ELSE LET key == Head(keys)
             d == h[item.v]
             a == Len(h) + 1
         IN  IF key \notin DOMAIN d
             THEN Descend(Append([h EXCEPT ![item.v] = (key :> Ref(a)) @@ d], EmptyDict),
                          Ref(a), Tail(keys))
             ELSE Descend(h, d[key], Tail(keys))

\* ConfigManager.set(key_path, value): the heap afterwards, the
\* config_updated and error_occurred signals emitted.
ConfigManager_set(h, root, key_path, value) ==
    LET n == Len(key_path)
        w == Descend(h, Ref(root), SubSeq(key_path, 1, n - 1))
        d == w.heap[w.item.v]
        stored == [k \in DOMAIN d \cup {key_path[n]} |->
                      IF k = key_path[n] THEN Scalar(value) ELSE d[k]]
    IN  IF w.ok /\ w.item.ref
        THEN [heap |-> [w.heap EXCEPT ![w.item.v] = stored],
              emitted |-> 1, errors |-> 0]
        ELSE [heap |-> w.heap, emitted |-> 0, errors |-> 1]

\* ------------------------------------------------------------ the manager
\* The object's fields as one record, with what happens while one handler
\* runs: the signals emitted (the class has screensaver_activated,
\* screensaver_deactivated and error_occurred; state_changed counts a
\* notification of a state change, which no statement emits), the calls of
\* _activate_screensaver, the "State changed" lines logged and the HTTP
\* requests made and waited for.
Self ==
    [state |-> state, is_active |-> is_active,
     screensaver_windows |-> screensaver_windows,
     last_input_time |-> last_input_time, input_activity |-> input_activity,
     poll_timer |-> poll_timer, screensaver_off_timer |-> screensaver_off_timer,
     connected |-> connected, config |-> config,
     activate_calls |-> 0, activated |-> 0, deactivated |-> 0, errors |-> 0,
     off_stopped |-> FALSE,
     state_logged |-> 0, state_changed |-> 0, http_requests |-> 0]

\* _set_state: logs and assigns, when the state differs.
_set_state(s, new_state) ==
    IF s.state # new_state
    THEN [s EXCEPT !.state = new_state, !.state_logged = @ + 1]
    ELSE s

start_monitoring(s) ==
    [s EXCEPT !.poll_timer = QTimerStart(@, ConfigGet(s.config, KeyInterval))]

stop_monitoring(s) == [s EXCEPT !.poll_timer = QTimerStop(@)]

\* _user_is_active without `self._input_activity = False`.
_user_is_active_keeps_flag(s) ==
    IF s.input_activity
    THEN [ret |-> TRUE, self |-> s]
    ELSE [ret |-> FALSE, self |-> s]

\* _user_is_active: the value returned, and the object afterwards.
_user_is_active(s) ==
    IF s.input_activity
    THEN [ret |-> TRUE, self |-> [s EXCEPT !.input_activity = FALSE]]
    ELSE [ret |-> FALSE, self |-> s]

\* A window built for display number i of app.screens().
ScreensaverWindow(i) == [screen |-> i]

\* ScreensaverWindow._update_display, which __init__ calls last: the number
\* of requests.get(url, timeout=5) calls it makes and waits for.
_update_display(cfg) ==
    IF ConfigGetOr(cfg, KeyShowWeather, FALSE) /\ ConfigGetOr(cfg, KeyLocation, "") # ""
    THEN 1
    ELSE 0

\* _activate_screensaver with `screens` displays connected; fail = 0 when every
\* ScreensaverWindow is built, fail = k when building the k-th one raises. The
\* steps let the last display fail: a failure at an earlier one leaves what a
\* failure at the last of fewer displays leaves.
_activate_screensaver(s, screens, fail) ==
    LET s0 == [s EXCEPT !.activate_calls = @ + 1]
        created == IF fail = 0 THEN screens ELSE fail - 1
        wins == s.screensaver_windows \o [i \in 1..created |-> ScreensaverWindow(i)]
        s1 == [s0 EXCEPT !.screensaver_windows = wins,
                         !.http_requests = @ + created * _update_display(s.config)]
        s2 == [s1 EXCEPT !.is_active = TRUE, !.activated = @ + 1]
        s3 == stop_monitoring(s2)
        turn_off_delay == ConfigGet(s.config, KeyTurnOff)
    IN  IF s.is_active THEN s0
        ELSE IF fail # 0 THEN [s1 EXCEPT !.errors = @ + 1]
        ELSE IF turn_off_delay > 0
             THEN [s3 EXCEPT !.screensaver_off_timer =
                                 [active |-> TRUE,
                                  remaining |-> turn_off_delay * SecondsPerMinute]]
             ELSE s3

\* deactivate_screensaver. window.close() sends the window its closeEvent,
\* which emits closed, which is connected to deactivate_screensaver: the call
\* is re-entered while is_active is still True. `closing` holds the windows
\* whose close() is in progress (Qt returns at once from close() on those).
RECURSIVE deactivate_screensaver(_, _)
RECURSIVE CloseWindows(_, _, _)
CloseWindows(s, i, closing) ==
    IF i > Len(s.screensaver_windows) THEN s
    ELSE IF i \in closing THEN CloseWindows(s, i + 1, closing)
    ELSE CloseWindows(deactivate_screensaver(s, closing \cup {i}), i + 1, closing)

\* deactivate_screensaver without its `if not self.is_active: return`.
deactivate_screensaver_unguarded(s, closing) ==
    LET s1 == IF s.screensaver_off_timer.active
              THEN [s EXCEPT !.screensaver_off_timer = QTimerStop(@),
                             !.off_stopped = TRUE]
              ELSE s
        s2 == CloseWindows(s1, 1, closing)
        s3 == [s2 EXCEPT !.screensaver_windows = <<>>,
                         !.is_active = FALSE,
                         !.deactivated = @ + 1]
    IN  IF ConfigGet(s3.config, KeyAuto) THEN start_monitoring(s3) ELSE s3

\* deactivate_screensaver without stopping screensaver_off_timer.
deactivate_screensaver_keeps_off_timer(s, closing) ==
    IF ~s.is_active THEN s
    ELSE LET s2 == CloseWindows(s, 1, closing)
             s3 == [s2 EXCEPT !.screensaver_windows = <<>>,
                              !.is_active = FALSE,
                              !.deactivated = @ + 1]
         IN  IF ConfigGet(s3.config, KeyAuto) THEN start_monitoring(s3) ELSE s3

\* deactivate_screensaver restarting the poll timer whatever the configuration.
deactivate_screensaver_always_resumes(s, closing) ==
    IF ~s.is_active THEN s
    ELSE LET s1 == IF s.screensaver_off_timer.active
                   THEN [s EXCEPT !.screensaver_off_timer = QTimerStop(@),
                                  !.off_stopped = TRUE]
                   ELSE s
             s2 == CloseWindows(s1, 1, closing)
             s3 == [s2 EXCEPT !.screensaver_windows = <<>>,
                              !.is_active = FALSE,
                              !.deactivated = @ + 1]
         IN  start_monitoring(s3)

deactivate_screensaver(s, closing) ==
    IF ~s.is_active THEN s
    ELSE LET s1 == IF s.screensaver_off_timer.active
                   THEN [s EXCEPT !.screensaver_off_timer = QTimerStop(@),
                                  !.off_stopped = TRUE]
                   ELSE s
             s2 == CloseWindows(s1, 1, closing)
             s3 == [s2 EXCEPT !.screensaver_windows = <<>>,
                              !.is_active = FALSE,
                              !.deactivated = @ + 1]
         IN  IF ConfigGet(s3.config, KeyAuto) THEN start_monitoring(s3) ELSE s3

toggle_screensaver(s, screens, fail) ==
    IF s.is_active THEN deactivate_screensaver(s, {})
    ELSE _activate_screensaver(s, screens, fail)

\* What win32gui.EnumWindows shows a check: it raises (or an import fails), or
\* it hands the windows on screen to the handler. A window is described by
\* what the checks ask of it.
WindowKinds == {"video_fullscreen", "titled", "hidden"}
EnumWindowsResults ==
    {[raises |-> TRUE, windows |-> {}]} \cup
    {[raises |-> FALSE, windows |-> W] : W \in SUBSET WindowKinds}

\* is_video_window: a known player or browser whose window fills the screen.
is_video_window(w) == w = "video_fullscreen"
\* is_blocking_window: visible, not minimised, not a tool window, with a title.
is_blocking_window(w) == w \in {"video_fullscreen", "titled"}

\* _is_video_playing answering that a video plays when the enumeration raises.
_is_video_playing_busy_on_error(enum) ==
    IF enum.raises THEN TRUE
    ELSE \E w \in enum.windows : is_video_window(w)

\* _is_video_playing: every exception ends in `return False`.
_is_video_playing(enum) ==
    IF enum.raises THEN FALSE
    ELSE \E w \in enum.windows : is_video_window(w)

\* _is_system_active (no caller in the program): the same shape.
_is_system_active(enum) ==
    IF enum.raises THEN FALSE
    ELSE \E w \in enum.windows : is_blocking_window(w)

\* _poll_inactivity testing the elapsed time before the pending input.
_poll_inactivity_elapsed_first(s, t, video, screens, fail) ==
    LET delay_seconds == ConfigGet(s.config, KeyDelay) * SecondsPerMinute
        ua == _user_is_active(s)
    IN  IF t - s.last_input_time >= delay_seconds /\ ~video
        THEN IF s.state # "ACTIVE"
             THEN _set_state(_activate_screensaver(s, screens, fail), "ACTIVE")
             ELSE s
        ELSE IF ua.ret
        THEN _set_state([ua.self EXCEPT !.last_input_time = t], "IDLE")
        ELSE _set_state(s, "WAITING")

\* _poll_inactivity without the video check.
_poll_inactivity_no_video_check(s, t, video, screens, fail) ==
    LET delay_seconds == ConfigGet(s.config, KeyDelay) * SecondsPerMinute
        ua == _user_is_active(s)
    IN  IF ua.ret
        THEN _set_state([ua.self EXCEPT !.last_input_time = t], "IDLE")
        ELSE IF t - s.last_input_time >= delay_seconds
             THEN IF s.state # "ACTIVE"
                  THEN _set_state(_activate_screensaver(s, screens, fail), "ACTIVE")
                  ELSE s
             ELSE _set_state(s, "WAITING")

\* _poll_inactivity comparing with > where the code has >=.
_poll_inactivity_strictly_later(s, t, video, screens, fail) ==
    LET delay_seconds == ConfigGet(s.config, KeyDelay) * SecondsPerMinute
        ua == _user_is_active(s)
    IN  IF ua.ret
        THEN _set_state([ua.self EXCEPT !.last_input_time = t], "IDLE")
        ELSE IF video THEN _set_state(s, "WAITING")
        ELSE IF t - s.last_input_time > delay_seconds
             THEN IF s.state # "ACTIVE"
                  THEN _set_state(_activate_screensaver(s, screens, fail), "ACTIVE")
                  ELSE s
             ELSE _set_state(s, "WAITING")

\* _poll_inactivity writing last_input_time on the video branch as well.
_poll_inactivity_video_touches_timestamp(s, t, video, screens, fail) ==
    LET delay_seconds == ConfigGet(s.config, KeyDelay) * SecondsPerMinute
        ua == _user_is_active(s)
    IN  IF ua.ret
        THEN _set_state([ua.self EXCEPT !.last_input_time = t], "IDLE")
        ELSE IF video
        THEN _set_state([s EXCEPT !.last_input_time = t], "WAITING")
        ELSE IF t - s.last_input_time >= delay_seconds
             THEN IF s.state # "ACTIVE"
                  THEN _set_state(_activate_screensaver(s, screens, fail), "ACTIVE")
                  ELSE s
             ELSE _set_state(s, "WAITING")

\* _poll_inactivity at time t; video is what _is_video_playing returns.
_poll_inactivity(s, t, video, screens, fail) ==
    LET delay_seconds == ConfigGet(s.config, KeyDelay) * SecondsPerMinute
        ua == _user_is_active(s)
    IN  IF ua.ret
        THEN LET s1 == [ua.self EXCEPT !.last_input_time = t]
             IN  IF s1.state # "IDLE" THEN _set_state(s1, "IDLE") ELSE s1
        ELSE IF video THEN _set_state(s, "WAITING")
        ELSE IF t - s.last_input_time >= delay_seconds
             THEN IF s.state # "ACTIVE"
                  THEN _set_state(_activate_screensaver(s, screens, fail), "ACTIVE")
                  ELSE s
             ELSE _set_state(s, "WAITING")

\* _on_config_updated without poll_timer.setInterval: the new period is
\* only used the next time the timer is started.
_on_config_updated_keeps_period(s) ==
    LET s2 == IF ConfigGet(s.config, KeyAuto)
              THEN IF ~s.poll_timer.active THEN start_monitoring(s) ELSE s
              ELSE IF s.poll_timer.active THEN stop_monitoring(s) ELSE s
        turn_off_delay == ConfigGet(s.config, KeyTurnOff)
    IN  IF s2.screensaver_off_timer.active
        THEN IF turn_off_delay > 0
             THEN [s2 EXCEPT !.screensaver_off_timer =
                                 [active |-> TRUE,
                                  remaining |-> turn_off_delay * SecondsPerMinute]]
             ELSE [s2 EXCEPT !.screensaver_off_timer = QTimerStop(@)]
        ELSE s2

\* _on_config_updated leaving a running poll timer running when
\* auto-activation is disabled.
_on_config_updated_never_stops_polling(s) ==
    LET interval == ConfigGet(s.config, KeyInterval)
        s1 == [s EXCEPT !.poll_timer = QTimerSetInterval(@, interval)]
        s2 == IF ConfigGet(s.config, KeyAuto) /\ ~s1.poll_timer.active
              THEN start_monitoring(s1)
              ELSE s1
        turn_off_delay == ConfigGet(s.config, KeyTurnOff)
    IN  IF s2.screensaver_off_timer.active
        THEN IF turn_off_delay > 0
             THEN [s2 EXCEPT !.screensaver_off_timer =
                                 [active |-> TRUE,
                                  remaining |-> turn_off_delay * SecondsPerMinute]]
             ELSE [s2 EXCEPT !.screensaver_off_timer = QTimerStop(@)]
        ELSE s2

\* _on_config_updated re-arming the screen-off timer but never stopping it.
_on_config_updated_keeps_off_timer(s) ==
    LET interval == ConfigGet(s.config, KeyInterval)
        s1 == [s EXCEPT !.poll_timer = QTimerSetInterval(@, interval)]
        s2 == IF ConfigGet(s.config, KeyAuto)
              THEN IF ~s1.poll_timer.active THEN start_monitoring(s1) ELSE s1
              ELSE IF s1.poll_timer.active THEN stop_monitoring(s1) ELSE s1
        turn_off_delay == ConfigGet(s.config, KeyTurnOff)
    IN  IF s2.screensaver_off_timer.active /\ turn_off_delay > 0
        THEN [s2 EXCEPT !.screensaver_off_timer =
                            [active |-> TRUE,
                             remaining |-> turn_off_delay * SecondsPerMinute]]
        ELSE s2

_on_config_updated(s) ==
    LET interval == ConfigGet(s.config, KeyInterval)
        s1 == [s EXCEPT !.poll_timer = QTimerSetInterval(@, interval)]
        s2 == IF ConfigGet(s.config, KeyAuto)
              THEN IF ~s1.poll_timer.active THEN start_monitoring(s1) ELSE s1
              ELSE IF s1.poll_timer.active THEN stop_monitoring(s1) ELSE s1
        turn_off_delay == ConfigGet(s.config, KeyTurnOff)
    IN  IF s2.screensaver_off_timer.active
        THEN IF turn_off_delay > 0
             THEN [s2 EXCEPT !.screensaver_off_timer =
                                 [active |-> TRUE,
                                  remaining |-> turn_off_delay * SecondsPerMinute]]
             ELSE [s2 EXCEPT !.screensaver_off_timer = QTimerStop(@)]
        ELSE s2

cleanup(s) ==
    [deactivate_screensaver(stop_monitoring(s), {}) EXCEPT !.connected = FALSE]

\* ------------------------------------------------------------ steps
\* The record of a step: the handler that ran, what it was given (for a poll:
\* whether input was pending, what the video check would answer, whether the
\* enumeration of windows raised, whether the delay had elapsed, how many
\* input events came since the poll before and during this one, what the
\* poll before was answered; for a config update: whether a value the manager reads
\* changed and under which key, whether each timer was running) and what
\* it emitted.
NoOp == [op |-> "init", key |-> "", changed |-> FALSE, poll_was_active |-> FALSE,
         off_was_active |-> FALSE,
         events_between |-> 0, events_during |-> 0, prev_activity |-> FALSE,
         activity |-> FALSE, video |-> FALSE, enum_raised |-> FALSE,
         overdue |-> FALSE,
         activate_calls |-> 0, activated |-> 0,
         deactivated |-> 0, errors |-> 0, off_stopped |-> FALSE,
         state_logged |-> 0, state_changed |-> 0, http_requests |-> 0]

Did(op, s) == [NoOp EXCEPT !.op = op, !.activate_calls = s.activate_calls,
                           !.activated = s.activated, !.deactivated = s.deactivated,
                           !.errors = s.errors, !.off_stopped = s.off_stopped,
                           !.state_logged = s.state_logged,
                           !.state_changed = s.state_changed,
                           !.http_requests = s.http_requests]

Disturbed == [on |-> FALSE, polls |-> 0, activations |-> 0]

\* How _setup_input_listeners can end: both listeners run; a listener thread
\* dies on installing its hook (start() has returned, no callback ever runs);
\* Listener(...) or start() raises.
HookOutcomes == {"installed", "dead", "raised"}
\* The keyboard thread outside toggle_screensaver.
HotkeyIdle == [pc |-> "idle", screens |-> 0]
\* No input event delivered yet, no poll answered yet.
NoEvents == [between |-> 0, during |-> 0, prev |-> FALSE]

\* The object's fields after a handler that left it as s.
Becomes(s) ==
    /\ state' = s.state
    /\ is_active' = s.is_active
    /\ screensaver_windows' = s.screensaver_windows
    /\ last_input_time' = s.last_input_time
    /\ input_activity' = s.input_activity
    /\ poll_timer' = s.poll_timer
    /\ screensaver_off_timer' = s.screensaver_off_timer
    /\ connected' = s.connected

\* A configuration dictionary holding the four keys the manager reads.
ConfigDict(d, i, a, o) ==
    (KeyDelay :> d) @@ (KeyInterval :> i) @@ (KeyAuto :> a) @@ (KeyTurnOff :> o)

\* ScreensaverManager.__init__, after ConfigManager.load_config read one of
\* the dictionaries `configs`, with _setup_input_listeners ending in one of
\* `outcomes`. When it raises, __init__ is left before start_monitoring and
\* ScreensaverApp.initialize returns False: run() returns 1 without an event
\* loop.
Fields(configs, outcomes) ==
    /\ StoreConstructed
    /\ config \in configs
    /\ hooks \in outcomes
    /\ hotkey = HotkeyIdle
    /\ poll_pc = "idle"
    /\ events = NoEvents
    /\ state = "IDLE"
    /\ is_active = FALSE
    /\ screensaver_windows = <<>>
    /\ now = 0
    /\ last_input_time = 0
    /\ input_activity = FALSE
    /\ poll_timer = IF hooks # "raised" /\ ConfigGet(config, KeyAuto)
                    THEN QTimerStart([active |-> FALSE], ConfigGet(config, KeyInterval))
                    ELSE [active |-> FALSE, interval |-> 0, remaining |-> 0]
    /\ screensaver_off_timer = [active |-> FALSE, remaining |-> 0]
    /\ connected = TRUE
    /\ last = NoOp

\* The construction, with the count of an undisturbed run's polls begun.
Constructing(configs, outcomes) ==
    /\ Fields(configs, outcomes)
    /\ quiet = [on |-> TRUE, polls |-> 0, activations |-> 0]

\* The construction with both listeners installed.
Constructed(configs) == Constructing(configs, {"installed"})

Init ==
    Constructed({ConfigDict(d, i, a, o) :
                    d \in DelayMinutesValues, i \in IntervalSecondsValues,
                    a \in BOOLEAN, o \in TurnOffMinutesValues})

\* The clock advances, up to `limit`; a timer that is due fires first.
Advance(limit) ==
    /\ UNCHANGED <<concurrent, store>>
    /\ connected
    /\ now + TickSeconds <= limit
    /\ ~QTimerDue(poll_timer)
    /\ ~QTimerDue(screensaver_off_timer)
    /\ now' = now + TickSeconds
    /\ poll_timer' = QTimerAdvance(poll_timer)
    /\ screensaver_off_timer' = QTimerAdvance(screensaver_off_timer)
    /\ last' = [NoOp EXCEPT !.op = "tick"]
    /\ UNCHANGED <<state, is_active, screensaver_windows, last_input_time,
                   input_activity, connected, config, quiet>>

Tick == Advance(MaxTime)

TickLong == Advance(LongTime)

\* on_mouse / on_keyboard, called by the pynput listener threads. Setting a
\* flag that is already set changes nothing, so the step is taken when it is
\* clear.
Input ==
    /\ UNCHANGED <<concurrent, store>>
    /\ connected
    /\ ~input_activity
    /\ input_activity' = TRUE
    /\ last' = [NoOp EXCEPT !.op = "input"]
    /\ quiet' = Disturbed
    /\ UNCHANGED <<state, is_active, screensaver_windows, last_input_time,
                   poll_timer, screensaver_off_timer, connected, config, now>>

\* poll_timer.timeout -> _poll_inactivity
Poll ==
    /\ UNCHANGED <<concurrent, store>>
    /\ connected
    /\ QTimerDue(poll_timer)
    /\ \E enum \in EnumWindowsResults, screens \in 1..MaxDisplays :
       \E fail \in {0, screens} :
          LET video == _is_video_playing(enum)
              armed == [Self EXCEPT !.poll_timer.remaining = poll_timer.interval]
              s == _poll_inactivity(armed, now, video, screens, fail)
          IN  /\ Len(s.screensaver_windows) <= MaxWindows
              /\ Becomes(s)
              /\ last' = [Did("poll", s) EXCEPT
                             !.activity = input_activity,
                             !.video = video,
                             !.enum_raised = enum.raises,
                             !.overdue = (now - last_input_time >=
                                 ConfigGet(config, KeyDelay) * SecondsPerMinute)]
              /\ quiet' = IF quiet.on /\ ~input_activity /\ ~video
                          THEN [quiet EXCEPT !.polls = @ + 1,
                                             !.activations = @ + s.activate_calls]
                          ELSE Disturbed
    /\ UNCHANGED <<config, now>>

\* toggle_screensaver: the main window's button, the ctrl+alt+s hotkey.
Toggle ==
    /\ UNCHANGED <<concurrent, store>>
    /\ connected
    /\ \E screens \in 1..MaxDisplays :
       \E fail \in {0, screens} :
          LET s == toggle_screensaver(Self, screens, fail)
          IN  /\ Len(s.screensaver_windows) <= MaxWindows
              /\ Becomes(s)
              /\ last' = Did("toggle", s)
    /\ quiet' = Disturbed
    /\ UNCHANGED <<config, now>>

\* deactivate_screensaver called from outside: the ctrl+alt+q hotkey.
EmergencyExit ==
    /\ UNCHANGED <<concurrent, store>>
    /\ connected
    /\ LET s == deactivate_screensaver(Self, {})
       IN  Becomes(s) /\ last' = Did("emergency_exit", s)
    /\ quiet' = Disturbed
    /\ UNCHANGED <<config, now>>

\* keyPressEvent / mousePressEvent of window i: self.close(), whose closeEvent
\* emits closed. The window hides itself; the manager's list is changed by
\* deactivate_screensaver alone.
SurfaceInput ==
    /\ UNCHANGED <<concurrent, store>>
    /\ connected
    /\ \E i \in 1..Len(screensaver_windows) :
          LET s == deactivate_screensaver(Self, {i})
          IN  Becomes(s) /\ last' = Did("surface_input", s)
    /\ quiet' = Disturbed
    /\ UNCHANGED <<config, now>>

\* ConfigManager.set(key, value): stores the value and emits config_updated,
\* which runs _on_config_updated while it is connected.
ConfigSet ==
    /\ UNCHANGED <<concurrent, store>>
    /\ connected
    /\ \E key \in ConfigKeys :
       \E value \in ConfigValues(key) :
          LET cfg == ConfigStore(config, key, value)
              s == IF connected
                   THEN _on_config_updated([Self EXCEPT !.config = cfg])
                   ELSE Self
          IN  /\ config' = cfg
              /\ Becomes(s)
              /\ last' = [Did("config_set", s) EXCEPT
                             !.key = IF cfg # config THEN key ELSE "",
                             !.changed = (cfg # config),
                             !.poll_was_active = poll_timer.active,
                             !.off_was_active = screensaver_off_timer.active]
    /\ quiet' = Disturbed
    /\ UNCHANGED now

\* screensaver_off_timer.timeout -> _turn_off_screen (single shot).
TurnOffScreen ==
    /\ UNCHANGED <<concurrent, store>>
    /\ connected
    /\ QTimerDue(screensaver_off_timer)
    /\ screensaver_off_timer' = QTimerStop(screensaver_off_timer)
    /\ last' = [NoOp EXCEPT !.op = "turn_off_screen"]
    /\ UNCHANGED <<state, is_active, screensaver_windows, last_input_time,
                   input_activity, poll_timer, connected, config, now, quiet>>

\* ScreensaverApp.quit_application -> ScreensaverManager.cleanup. app.quit()
\* follows at once and ends the event loop: after it no timer fires and no
\* handler runs, which is why every other step needs `connected`.
Cleanup ==
    /\ UNCHANGED <<concurrent, store>>
    /\ LET s == cleanup(Self)
       IN  Becomes(s) /\ last' = Did("cleanup", s)
    /\ quiet' = Disturbed
    /\ UNCHANGED <<config, now>>

Next ==
    \/ Tick
    \/ Input
    \/ Poll
    \/ Toggle
    \/ EmergencyExit
    \/ SurfaceInput
    \/ ConfigSet
    \/ TurnOffScreen
    \/ Cleanup

Spec == Init /\ [][Next]_vars

\* The manager constructed over ConfigManager.default_config, which no one
\* changes; system.turn_off_screen_delay_minutes is not among the defaults.
InitDefault ==
    Constructed({ConfigDict(DefaultDelayMinutes, DefaultCheckIntervalSeconds, TRUE, 0)})

NextDefault ==
    \/ TickLong
    \/ Input
    \/ Poll
    \/ Toggle
    \/ EmergencyExit
    \/ SurfaceInput
    \/ Cleanup

SpecDefault == InitDefault /\ [][NextDefault]_vars

\* ------------------------------------------------------------ threads
\* The handlers above run as a whole. The steps below follow the three
\* threads of the program where they meet: the pynput listeners write
\* _input_activity while the poll, on the event thread, is between the read
\* and the write of _user_is_active; the keyboard library calls
\* toggle_screensaver on its own thread while the event thread runs a poll.

\* The process runs: the manager was constructed and not cleaned up.
Running == connected /\ hooks # "raised"

\* on_mouse / on_keyboard on a listener thread, one call per input event.
\* No statement stops the listeners: they call until the process ends, after
\* cleanup as before it.
HookInput ==
    /\ UNCHANGED store
    /\ hooks = "installed"
    /\ events.between + events.during < MaxEvents
    /\ input_activity' = TRUE
    /\ events' = IF poll_pc = "clearing"
                 THEN [events EXCEPT !.during = @ + 1]
                 ELSE [events EXCEPT !.between = @ + 1]
    /\ last' = [NoOp EXCEPT !.op = "input"]
    /\ quiet' = Disturbed
    /\ UNCHANGED <<state, is_active, screensaver_windows, last_input_time,
                   poll_timer, screensaver_off_timer, connected, config, now,
                   hooks, hotkey, poll_pc>>

\* poll_timer.timeout -> _poll_inactivity up to the read of _input_activity in
\* _user_is_active. A poll that reads False touches the flag no more and is
\* run to its end; a poll that reads True stands before the write.
PollRead ==
    /\ UNCHANGED store
    /\ Running
    /\ poll_pc = "idle"
    /\ QTimerDue(poll_timer)
    /\ LET armed == [Self EXCEPT !.poll_timer.remaining = poll_timer.interval]
       IN  IF input_activity
           THEN /\ poll_pc' = "clearing"
                /\ Becomes(armed)
                /\ last' = [NoOp EXCEPT !.op = "poll_read"]
                /\ UNCHANGED events
           ELSE \E enum \in EnumWindowsResults, screens \in 1..MaxDisplays :
                   LET video == _is_video_playing(enum)
                       s == _poll_inactivity(armed, now, video, screens, 0)
                   IN  /\ Len(s.screensaver_windows) <= MaxWindows
                       /\ Becomes(s)
                       /\ last' = [Did("poll", s) EXCEPT
                                      !.activity = FALSE,
                                      !.video = video,
                                      !.enum_raised = enum.raises,
                                      !.overdue = (now - last_input_time >=
                                          ConfigGet(config, KeyDelay) * SecondsPerMinute),
                                      !.events_between = events.between,
                                      !.prev_activity = events.prev]
                       /\ events' = [events EXCEPT !.prev = FALSE]
                       /\ UNCHANGED poll_pc
    /\ quiet' = Disturbed
    /\ UNCHANGED <<config, now, hooks, hotkey>>

\* The rest of a poll that read True: _input_activity = False, return True,
\* last_input_time = now, state IDLE.
PollClear ==
    /\ UNCHANGED store
    /\ Running
    /\ poll_pc = "clearing"
    /\ LET s == _poll_inactivity([Self EXCEPT !.input_activity = TRUE], now, FALSE, 1, 0)
       IN  /\ Becomes(s)
           /\ last' = [Did("poll", s) EXCEPT
                          !.activity = TRUE,
                          !.events_between = events.between,
                          !.events_during = events.during,
                          !.prev_activity = events.prev]
    /\ events' = [between |-> 0, during |-> 0, prev |-> TRUE]
    /\ poll_pc' = "idle"
    /\ quiet' = Disturbed
    /\ UNCHANGED <<config, now, hooks, hotkey>>

\* ctrl+alt+s on the keyboard thread: toggle_screensaver up to and with the
\* `if self.is_active: return` of _activate_screensaver; with a session
\* active, deactivate_screensaver. No statement removes the hotkeys: the
\* keyboard thread calls until the process ends, after cleanup as before it.
HotkeyToggle ==
    /\ UNCHANGED store
    /\ hooks # "raised"
    /\ hotkey.pc = "idle"
    /\ IF is_active
       THEN LET s == toggle_screensaver(Self, 1, 0)
            IN  /\ Becomes(s)
                /\ last' = Did("toggle", s)
                /\ UNCHANGED hotkey
       ELSE \E screens \in 1..MaxDisplays :
               /\ hotkey' = [pc |-> "activating", screens |-> screens]
               /\ last' = [NoOp EXCEPT !.op = "hotkey"]
               /\ Becomes(Self)
    /\ quiet' = Disturbed
    /\ UNCHANGED <<config, now, hooks, poll_pc, events>>

\* The keyboard thread past the test: the rest of _activate_screensaver.
HotkeyActivate ==
    /\ UNCHANGED store
    /\ hooks # "raised"
    /\ hotkey.pc = "activating"
    /\ LET s == _activate_screensaver([Self EXCEPT !.is_active = FALSE],
                                      hotkey.screens, 0)
       IN  /\ Len(s.screensaver_windows) <= MaxWindows
           /\ Becomes(s)
           /\ last' = Did("toggle", s)
    /\ hotkey' = HotkeyIdle
    /\ quiet' = Disturbed
    /\ UNCHANGED <<config, now, hooks, poll_pc, events>>

\* The clock, while no handler is part way through.
TickThreads ==
    /\ Running
    /\ poll_pc = "idle"
    /\ hotkey.pc = "idle"
    /\ Advance(MaxTime)

\* Input on a window, handled by the event thread between two handlers.
SurfaceInputThreads ==
    /\ Running
    /\ poll_pc = "idle"
    /\ SurfaceInput

\* quit_application -> cleanup on the event thread, once; the listener and
\* keyboard threads run on while the process winds down.
CleanupThreads ==
    /\ Running
    /\ poll_pc = "idle"
    /\ Cleanup

\* The manager constructed with auto-activation on, whatever becomes of the
\* listeners.
InitThreads ==
    Constructing({ConfigDict(SetMin(DelayMinutesValues), SetMin(IntervalSecondsValues),
                             TRUE, 0)},
                 HookOutcomes)

NextThreads ==
    \/ TickThreads
    \/ HookInput
    \/ PollRead
    \/ PollClear
    \/ HotkeyToggle
    \/ HotkeyActivate
    \/ SurfaceInputThreads
    \/ CleanupThreads

SpecThreads == InitThreads /\ [][NextThreads]_vars

\* ------------------------------------------------------------ long runs
\* A run without end. The code compares `now - last_input_time` with the
\* delay and nothing else, so the clock is kept as the time since
\* last_input_time, and stands once it has reached the delay: the runs have
\* finitely many states and no bound on their length.
TickLive ==
    /\ UNCHANGED <<concurrent, store>>
    /\ connected
    /\ ~QTimerDue(poll_timer)
    /\ ~QTimerDue(screensaver_off_timer)
    /\ LET delay_seconds == ConfigGet(config, KeyDelay) * SecondsPerMinute
           elapsed == now - last_input_time + TickSeconds
       IN  /\ last_input_time' = 0
           /\ now' = IF elapsed >= delay_seconds THEN delay_seconds ELSE elapsed
    /\ poll_timer' = QTimerAdvance(poll_timer)
    /\ screensaver_off_timer' = QTimerAdvance(screensaver_off_timer)
    /\ last' = [NoOp EXCEPT !.op = "tick"]
    /\ UNCHANGED <<state, is_active, screensaver_windows, input_activity,
                   connected, config, quiet>>

\* The manager constructed with auto-activation on and no screen-off delay;
\* the polls of the run are not counted.
InitLive ==
    /\ Fields({ConfigDict(SetMin(DelayMinutesValues), SetMin(IntervalSecondsValues),
                          TRUE, 0)},
              {"installed"})
    /\ quiet = Disturbed

NextLive ==
    \/ TickLive
    \/ Input
    \/ Poll
    \/ Toggle
    \/ EmergencyExit
    \/ SurfaceInput

\* The event loop runs: time passes, and a poll timer that is due fires.
SpecLive ==
    InitLive /\ [][NextLive]_vars /\ WF_vars(TickLive) /\ WF_vars(Poll)

\* ------------------------------------------------------------ ConfigManager
\* Key paths given to set: a default, a new section, a path through a
\* number, a top-level key.
KeyPaths ==
    DefaultPaths \cup
    {<<"test", "value">>, <<"activation", "delay_minutes", "unit">>, <<"test">>}
SetValues == {DefaultDelayMinutes, DefaultCheckIntervalSeconds}
\* The default handed to get.
GetDefaults == {0}

\* config_manager.set(key_path, value)
Set ==
    /\ cm_last.calls < MaxCalls
    /\ \E key_path \in KeyPaths, value \in SetValues :
          LET r == ConfigManager_set(heap, cm_config, key_path, value)
          IN  /\ heap' = r.heap
              /\ cm_last' = [op |-> "set", key_path |-> key_path, value |-> value,
                             emitted |-> r.emitted, errors |-> r.errors,
                             calls |-> cm_last.calls + 1]
    /\ UNCHANGED <<cm_config, default_config, manager>>

\* config_manager.reset_to_defaults(): config = default_config.copy()
ResetToDefaults ==
    /\ cm_last.calls < MaxCalls
    /\ heap' = DictCopy(heap, default_config)
    /\ cm_config' = Len(heap) + 1
    /\ cm_last' = [op |-> "reset", key_path |-> <<>>, value |-> 0,
                   emitted |-> 1, errors |-> 0, calls |-> cm_last.calls + 1]
    /\ UNCHANGED <<default_config, manager>>

InitConfig ==
    /\ Fields({ConfigDict(DefaultDelayMinutes, DefaultCheckIntervalSeconds, TRUE, 0)},
              {"installed"})
    /\ quiet = Disturbed

NextConfig ==
    \/ Set
    \/ ResetToDefaults

SpecConfig == InitConfig /\ [][NextConfig]_vars

\* The manager constructed over a configuration with or without the weather
\* line switched on and a location entered.
InitWeather ==
    Constructed({ConfigDict(SetMin(DelayMinutesValues), SetMin(IntervalSecondsValues),
                            TRUE, 0)
                 @@ (KeyShowWeather :> w) @@ (KeyLocation :> "London") :
                 w \in BOOLEAN})

NextWeather ==
    \/ Tick
    \/ Input
    \/ Poll
    \/ SurfaceInput

SpecWeather == InitWeather /\ [][NextWeather]_vars

TypeOK ==
    /\ state \in {"IDLE", "WAITING", "ACTIVE"}
    /\ is_active \in BOOLEAN
    /\ Len(screensaver_windows) <= MaxWindows
    /\ last_input_time \in 0..now
    /\ now \in 0..LongTime
    /\ poll_timer.active => poll_timer.remaining \in 0..poll_timer.interval
    /\ screensaver_off_timer.active => screensaver_off_timer.remaining >= 0
    /\ hooks \in HookOutcomes
    /\ hotkey.pc \in {"idle", "activating"}
    /\ poll_pc \in {"idle", "clearing"}
    /\ events.between + events.during <= MaxEvents

\* ------------------------------------------------------------ claims
\* The object's own fields and the clock, without the history variables.
program == <<state, is_active, screensaver_windows, last_input_time,
             input_activity, poll_timer, screensaver_off_timer, connected,
             config, now>>

\* C1: the list of overlay windows is non-empty exactly when the inactivity
\* state is ACTIVE.
C1_WindowsIffStateActive ==
    (Len(screensaver_windows) > 0) <=> (state = "ACTIVE")

\* C2: a poll that finds input pending ends in state IDLE with
\* last_input_time at the poll's time and calls no activation, whatever the
\* elapsed time and the video check.
C2_PollWithActivityEndsIdle ==
    (last.op = "poll" /\ last.activity) =>
        /\ state = "IDLE"
        /\ last_input_time = now
        /\ last.activate_calls = 0
        /\ last.activated = 0

\* C2 witness: such a poll ran when the delay had elapsed and a video played.
C2_Witness ==
    last.op = "poll" /\ last.activity /\ last.overdue /\ last.video /\ now > 0

\* C3: a poll during which a video plays never ends in state ACTIVE and
\* calls no activation, even when the delay has elapsed.
C3_VideoPollNeverActivates ==
    (last.op = "poll" /\ last.video) =>
        /\ state # "ACTIVE"
        /\ last.activate_calls = 0
        /\ last.activated = 0

\* C3 witness: the video check answered true on a poll with no input pending
\* and the delay elapsed.
C3_Witness ==
    last.op = "poll" /\ last.video /\ ~last.activity /\ last.overdue /\ state = "WAITING"

\* C4: in a run with no input and no video, poll k leaves the state WAITING
\* while k * interval < delay and the first poll with k * interval >= delay
\* activates, once; with the default 5 minutes and 30 seconds polls 1..9 leave
\* WAITING and poll 10 activates.
C4_QuietRunActivatesAtFirstDuePoll ==
    quiet.on =>
        LET k == quiet.polls
            interval == ConfigGet(config, KeyInterval)
            delay_seconds == ConfigGet(config, KeyDelay) * SecondsPerMinute
        IN  /\ k = 0 => state = "IDLE" /\ quiet.activations = 0
            /\ (k >= 1 /\ k * interval < delay_seconds) =>
                   state = "WAITING" /\ quiet.activations = 0 /\ ~is_active
            /\ (k >= 1 /\ k * interval >= delay_seconds) =>
                   state = "ACTIVE" /\ quiet.activations = 1
            /\ last.op = "poll" => now = k * interval
            /\ (last.op = "poll" /\ last.activate_calls = 1) =>
                   /\ k * interval >= delay_seconds
                   /\ (k - 1) * interval < delay_seconds
            /\ (interval = 30 /\ delay_seconds = 300) =>
                   /\ k \in 1..9 => state = "WAITING"
                   /\ k = 10 => state = "ACTIVE"

\* C4 witness: the tenth poll of the default configuration has just activated.
C4_Witness ==
    /\ quiet.on /\ quiet.polls = 10 /\ quiet.activations = 1
    /\ last.op = "poll" /\ last.activated = 1
    /\ now = 300 /\ state = "ACTIVE" /\ is_active

\* C5: the list never holds two windows for the same display.
C5_OneWindowPerDisplay ==
    \A i, j \in 1..Len(screensaver_windows) :
        i # j => screensaver_windows[i].screen # screensaver_windows[j].screen

\* C6: deactivate_screensaver called with no session active changes no field
\* (windows, state, both timers with their time left), emits no
\* screensaver_deactivated and reports no error.
C6_DeactivateWithoutSessionChangesNothing ==
    [][(~is_active /\ EmergencyExit) =>
          /\ UNCHANGED program
          /\ last'.deactivated = 0
          /\ last'.errors = 0]_vars

\* C6 witness: the call was made with no session while the poll timer was part
\* way through its period.
C6_Witness ==
    /\ last.op = "emergency_exit" /\ last.deactivated = 0 /\ ~is_active
    /\ poll_timer.active /\ 0 < poll_timer.remaining
    /\ poll_timer.remaining < poll_timer.interval

C8_ToggleInWaitingForcesActive ==
    [][(state = "WAITING" /\ ~is_active /\ Toggle) =>
          (state' = "ACTIVE" /\ is_active' /\ Len(screensaver_windows') > 0)]_vars

\* C9: a running poll timer never has more time left than the configured
\* interval: an update of the interval re-arms it with the new period.
C9_NextPollWithinConfiguredInterval ==
    poll_timer.active =>
        poll_timer.remaining <= ConfigGet(config, KeyInterval)

\* C9 witness: the interval was changed from 30 s to 10 s while the timer was
\* running, and the next poll is 10 s away.
C9_Witness ==
    /\ last.op = "config_set" /\ last.key = KeyInterval /\ last.changed
    /\ last.poll_was_active
    /\ ConfigGet(config, KeyInterval) = 10
    /\ poll_timer.active /\ poll_timer.remaining = 10

\* C10: a config update that leaves the poll interval and the auto-activation
\* flag as they were does not touch a running poll timer.
C10_OtherUpdatesKeepPollTimer ==
    [][(poll_timer.active /\ ConfigSet
          /\ ConfigGet(config', KeyInterval) = ConfigGet(config, KeyInterval)
          /\ ConfigGet(config', KeyAuto)) =>
          poll_timer' = poll_timer]_vars
\* C11: after cleanup the poll timer is not running, no session exists (no
\* window is left in the list) and the screen-off timer is disarmed, from
\* whatever state cleanup was called.
C11_CleanupStopsEverything ==
    last.op = "cleanup" =>
        /\ ~poll_timer.active
        /\ ~is_active
        /\ Len(screensaver_windows) = 0
        /\ ~screensaver_off_timer.active

\* C14: when the activation a poll invokes creates no window (building the
\* first one raises), the state after that poll is WAITING, the poll timer
\* is still running and screensaver_activated was not emitted.
C14_FailedActivationRevertsToWaiting ==
    [][(Poll /\ ~is_active /\ last'.activate_calls = 1 /\ last'.errors = 1
          /\ Len(screensaver_windows') = Len(screensaver_windows)) =>
          /\ state' = "WAITING"
          /\ poll_timer'.active
          /\ last'.activated = 0]_vars

\* C15: an activation that creates at least one window leaves a session
\* active: is_active is true and the poll timer is stopped, so that no
\* displayed window is outside an active session.
C15_AnySurfaceMakesSessionActive ==
    [][((Poll \/ Toggle) /\ ~is_active /\ Len(screensaver_windows) = 0
          /\ Len(screensaver_windows') > 0) =>
          /\ is_active'
          /\ ~poll_timer'.active
          /\ last'.activated = 1]_vars

\* C17: every deactivation trigger (input on one window, the toggle while a
\* session is active, the emergency exit, an external request) leaves the
\* list of windows empty.
C17_EveryTriggerEndsWholeSession ==
    [][(SurfaceInput \/ EmergencyExit \/ (is_active /\ Toggle)) =>
          (Len(screensaver_windows') = 0 /\ ~is_active')]_vars

\* C17 within a session the code knows about: with is_active true every
\* trigger empties the list.
C17_ActiveSessionEndsWhole ==
    [][(is_active /\ (SurfaceInput \/ EmergencyExit \/ Toggle \/ Cleanup)) =>
          (Len(screensaver_windows') = 0 /\ ~is_active')]_vars

C20_EnumerationFailureIsNoVideo ==
    [][(Poll /\ last'.enum_raised) =>
             \E screens \in 1..MaxDisplays : \E fail \in {0, screens} :
                LET armed == [Self EXCEPT !.poll_timer.remaining = poll_timer.interval]
                    s == _poll_inactivity(armed, now, FALSE, screens, fail)
                IN  /\ state' = s.state
                    /\ is_active' = s.is_active
                    /\ screensaver_windows' = s.screensaver_windows
                    /\ last_input_time' = s.last_input_time
                    /\ input_activity' = s.input_activity
                    /\ poll_timer' = s.poll_timer
                    /\ screensaver_off_timer' = s.screensaver_off_timer
                    /\ last'.activate_calls = s.activate_calls
                    /\ last'.errors = s.errors
                    /\ ~last'.video]_vars

\* C20, the checks as functions: both answer false when the enumeration
\* raises.
C20_ChecksDegradeToFalse ==
    \A enum \in EnumWindowsResults :
        enum.raises => (~_is_video_playing(enum) /\ ~_is_system_active(enum))

\* C20 witness: the enumeration raised on a poll with no input pending and
\* the delay elapsed, and that poll activated.
C20_Witness ==
    /\ last.op = "poll" /\ last.enum_raised /\ ~last.activity /\ last.overdue
    /\ last.activated = 1 /\ is_active /\ state = "ACTIVE"

\* C12: with the toggle hotkey arriving on the keyboard thread while the
\* event thread activates, the list never holds two windows for one display
\* and is_active agrees with the list being non-empty.
C12_HotkeyToggleNeverDoublesSession ==
    /\ \A i, j \in 1..Len(screensaver_windows) :
           i # j => screensaver_windows[i].screen # screensaver_windows[j].screen
    /\ is_active <=> Len(screensaver_windows) > 0

\* C13: input events between two polls make the next poll's
\* _user_is_active answer true; a poll answered true is followed by a poll
\* answered false when no event came in between; an event not yet answered
\* for leaves the flag set for the poll in progress or the next one.
C13_ConsumeActivityOncePerBurst ==
    /\ (last.op = "poll" /\ last.events_between > 0) => last.activity
    /\ (last.op = "poll" /\ last.events_during > 0) => last.activity
    /\ (last.op = "poll" /\ last.prev_activity /\ last.events_between = 0) =>
           ~last.activity
    /\ (events.between + events.during > 0) => input_activity
    /\ (last.op = "poll" /\ last.activity) => (~input_activity /\ events = [NoEvents EXCEPT !.prev = TRUE])

\* C13 witness: two events came between two polls and one more between the
\* read and the write of the second poll, which answered true once; the poll
\* before had answered true as well.
C13_Witness ==
    /\ last.op = "poll" /\ last.activity /\ last.prev_activity
    /\ last.events_between = 2 /\ last.events_during = 1
    /\ ~input_activity /\ poll_pc = "idle"

\* C16: when installing the input listeners fails, the manager is still
\* constructed and the poll timer runs if auto-activation is enabled.
C16_HookFailureKeepsMachineRunning ==
    (hooks # "installed" /\ last.op = "init") =>
        /\ hooks # "raised"
        /\ ConfigGet(config, KeyAuto) => poll_timer.active

\* C16, a listener that dies after start() returned: every poll is answered
\* that no input came.
C16_DeadListenerMeansAlwaysIdle ==
    hooks = "dead" =>
        /\ ~input_activity
        /\ last.op = "poll" => ~last.activity

\* C23: the poll timer is never running while a session is active.
C23_NoPollingDuringSession ==
    is_active => ~poll_timer.active

\* C24: a handler that ends a session emits screensaver_deactivated exactly
\* once, and one that creates a session emits screensaver_activated exactly
\* once, whatever the trigger and the number of windows.
C24_OneNotificationPerSessionEnd ==
    /\ last.activated <= 1
    /\ last.deactivated <= 1
    /\ (last.op \in {"toggle", "emergency_exit", "surface_input", "cleanup"}
           /\ last.deactivated > 0) => last.deactivated = 1

C27_TimestampWrittenOnlyByActivityPoll ==
    [][/\ last_input_time' >= last_input_time
       /\ last_input_time' # last_input_time =>
              (last'.op = "poll" /\ last'.activity /\ last_input_time' = now)]_vars

\* C27 witness: a poll took the video branch after the delay had elapsed,
\* and the timestamp an earlier poll had written is still there.
C27_Witness ==
    /\ last.op = "poll" /\ last.video /\ ~last.activity /\ last.overdue
    /\ 0 < last_input_time /\ last_input_time < now

\* C28: every change of the inactivity state emits exactly one state-changed
\* notification, and setting the state it already has emits none.
C28_EveryStateChangeIsNotified ==
    [][last'.state_changed = (IF state' # state THEN 1 ELSE 0)]_vars

\* C29: no poll makes a blocking HTTP request on the event thread, the poll
\* that activates and builds the windows included.
C29_NoBlockingRequestInPoll ==
    last.op = "poll" => last.http_requests = 0

\* C21: after cleanup no listener installed at construction is still
\* registered and no listener or hotkey callback reaches the manager.
C21_HooksReleasedAfterCleanup ==
    ~connected =>
        /\ hooks # "installed"
        /\ last.op \notin {"input", "hotkey", "toggle"}

\* C21, the callbacks alone: none runs after cleanup.
C21_NoCallbackAfterCleanup ==
    ~connected => last.op \notin {"input", "hotkey", "toggle"}

\* From here on no input arrives, no video plays, no window fails to build
\* and nothing but the clock and the polls acts.
Calm ==
    /\ ~input_activity
    /\ last.op \in {"tick", "poll"}
    /\ last.op = "poll" => (~last.video /\ last.errors = 0)

\* C25: with auto-activation enabled and the polls firing, in a run where
\* every window builds, if from some point on there is no input and no
\* video, a session is eventually active (and stays), whatever ended the
\* session before.
C25_CalmLeadsToSession ==
    ([](last.errors = 0) /\ <>[]Calm) => (<>[]is_active)

\* C22: after set(k, v), get(k, d) returns v, and the set emitted exactly
\* one config_updated; a path that is in no dict returns d.
C22_SetThenGetRoundTrip ==
    \A d \in GetDefaults :
        /\ cm_last.op = "set" =>
               /\ ConfigManager_get(heap, cm_config, cm_last.key_path, d)
                      = Scalar(cm_last.value)
               /\ cm_last.emitted = 1
        /\ ConfigManager_get(heap, cm_config, <<"nonexistent", "key">>, d) = Scalar(d)

\* C30: after reset_to_defaults, get(k) of every key path of the defaults
\* returns the original default value, whatever was set before.
C30_ResetRestoresDefaults ==
    cm_last.op = "reset" =>
        \A k \in DefaultPaths, d \in GetDefaults :
            ConfigManager_get(heap, cm_config, k, d) = DefaultValue(k)
====
